---- MODULE Spec2Model ----
(***************************************************************************)
(* pixelspray (src/src/main.rs): the size handshake of run(), and the      *)
(* worker pool of run(): the worker tasks of client(), the dispatcher task *)
(* that feeds them chunks through bounded channels, and the supervisor     *)
(* loop of run() that selects on ctrl-c and on finished worker tasks.      *)
(***************************************************************************)
EXTENDS Integers, Sequences, FiniteSets, TLC

\* ------------------------------------------------------------- bounds
\* opt.num, the number of connections (a command-line input)
Num == 2
\* the largest chunks.len() the model enumerates (the packer's output depends
\* on the image)
MaxChunks == 2
\* longest handshake response line the model enumerates
MaxLine == 5
\* largest pxls.len() the packer model folds
MaxCmds == 88
\* largest pixel coordinate and largest placement offset the encoder model
\* enumerates
MaxCoord == 2
MaxOff == 2

\* ---------------------------------------------------- program constants
\* sync::mpsc::channel::<Arc<String>>(4)
Cap == 4
\* None => (1024, 768)
DefaultW == 1024
DefaultH == 768
\* let chunk_len = 1420
ChunkLen == 1420

Ids == 0 .. (Num - 1)
\* task handles, in spawn order: the t-th call of client()
Tasks == 1 .. Num

VARIABLES
    \* ---- handshake (run, lines 123-145)
    hs,         \* position in the handshake
    res,        \* what stream.next() gave: "unset", "None" or "Some"
    line,       \* the response line when res is "Some"
    sw, sh,     \* the canvas size
    \* ---- pool (run, lines 252-318; client)
    nchunks,    \* chunks.len(), the number of chunks of the ChunkSet (at least one)
    offset,     \* offset option: "Some" or "None" (line 252)
    channels,   \* the registry: identity -> channel (named by the task that owns its receiver)
    tasks,      \* FuturesUnordered: task handles not yet yielded by tasks.next()
    ident,      \* task handle -> the id its client() call was given
    pc,         \* task handle -> position of the worker task
    chan,       \* channel -> chunks buffered in it
    wr,         \* task handle -> the chunks being written (one or none)
    stalled,    \* task handles whose connection attempt or socket write never completes
    lock,       \* owner of the registry mutex: "free" or "disp"
    dpc,        \* position of the dispatcher task
    todo,       \* identities the dispatcher's zip has still to visit in this iteration
    cur,        \* the <<identity, chunk>> of the pending send, or <<>>
    broken,     \* the dispatcher's `broken` list
    cursor,     \* position of chunk_iter in the cycle
    sup,        \* position of run(): "select" or "done"
    sig,        \* the ctrl-c signal has been delivered
    running,    \* the runtime is alive (main has not returned)
    \* ---- history
    failed,     \* channels on which a dispatcher send has failed
    last,       \* identity -> <<chunk, registry size>> of the last delivery to it, or <<>>
    \* ---- encoder (run, lines 183-231, 252; client, lines 333-337)
    epc,        \* position in the encoding of one pixel and its placement
    no_offset,  \* opt.no_offset
    xoff, yoff, \* the placement offset (lines 160-176)
    pixel,      \* the <<x, y>> image::pixels() gives for the pixel
    pxcmd,      \* the PX command made of it, or <<>>
    dir,        \* the directive a worker writes on its connection, or <<>>
    \* ---- packer (run, lines 235-250)
    pk,         \* position of the fold
    folded,     \* number of commands of pxls the fold has taken
    total,      \* the bytes of these commands, all together
    buf         \* the fold's accumulator: the chunks

hvars == <<hs, res, line, sw, sh>>
wvars == <<pc, chan, wr, stalled>>
dvars == <<lock, dpc, todo, cur, broken, cursor, channels>>
svars == <<sup, sig, running, tasks>>
cvars == <<nchunks, offset, ident>>
pvars == <<wvars, dvars, svars, cvars, failed, last>>
evars == <<epc, no_offset, xoff, yoff, pixel, pxcmd, dir>>
kvars == <<pk, folded, total, buf>>
xvars == <<evars, kvars>>
vars == <<hvars, pvars, xvars>>

\* ------------------------------------------------------------ helpers
Insert(m, k, v) == [x \in (DOMAIN m) \cup {k} |-> IF x = k THEN v ELSE m[x]]
Remove(m, k) == [x \in (DOMAIN m) \ {k} |-> m[x]]
EmptyMap == [x \in {} |-> 0]
Range(s) == {s[i] : i \in DOMAIN s}

\* mutant: every client() call is given the id 0
StartupIdZero(t) == 0

\* for id in 0..opt.num: the id of the t-th call of client()
StartupId(t) == t - 1

\* the registry after n iterations of the startup loop: channels.insert(id, tx)
RECURSIVE StartupChannels(_)
StartupChannels(n) ==
    IF n = 0 THEN EmptyMap
    ELSE Insert(StartupChannels(n - 1), StartupId(n), n)

\* channels.iter_mut(): the keys of the map in its iteration order. A HashMap
\* iterates in an unspecified order that stays the same while no key is
\* inserted, and a removal keeps the order of the other keys; the identities
\* are interchangeable, so the model takes the ascending order for it
RECURSIVE IterOrder(_)
IterOrder(m) ==
    IF DOMAIN m = {} THEN <<>>
    ELSE LET k == CHOOSE x \in DOMAIN m : \A y \in DOMAIN m : x <= y
         IN <<k>> \o IterOrder(Remove(m, k))

Terminated(t) == pc[t] \in {"ok", "err"}
\* the receiver of channel c lives in the task c and is dropped with it
RxAlive(c) == ~Terminated(c)
\* a sender of channel c exists while the registry holds it
TxAlive(c) == \E id \in DOMAIN channels : channels[id] = c

\* the JoinHandle output tasks.next() yields for a finished task
Result(t) ==
    [some |-> TRUE, join |-> "Ok",
     res |-> IF pc[t] = "ok" THEN "Ok" ELSE "Err",
     id |-> ident[t]]

\* the arm of the supervisor's match that takes a tasks.next() result: the
\* arms are tried in the order written, so Some(Ok(Ok(_))) takes every
\* Ok(Ok(..)) and the respawn arm Some(Ok(Ok(id))) is never reached
SupArm(r) ==
    IF r.some /\ r.join = "Err" THEN "continue"
    ELSE IF ~r.some THEN "break"
    ELSE IF r.join = "Err" THEN "break"
    ELSE IF r.res = "Ok" THEN "break"
    ELSE IF r.res = "Err" THEN "break"
    ELSE "respawn"

\* ----------------------------------------------------------- handshake
Alphabet == {" ", "S", "1", "2", "+"}
Lines == UNION {[1 .. n -> Alphabet] : n \in 0 .. MaxLine}

DigitVal(c) == IF c = "1" THEN 1 ELSE IF c = "2" THEN 2 ELSE 0 - 1

\* s.split_ascii_whitespace(): the maximal runs of non-blank characters
RECURSIVE Fields(_)
Fields(s) ==
    IF s = <<>> THEN <<>>
    ELSE IF Head(s) = " " THEN Fields(Tail(s))
    ELSE LET stops == {i \in 1 .. Len(s) : s[i] = " "}
             n == IF stops = {} THEN Len(s) + 1
                  ELSE CHOOSE i \in stops : \A j \in stops : i <= j
         IN <<SubSeq(s, 1, n - 1)>> \o Fields(SubSeq(s, n, Len(s)))

\* the value of a run of decimal digits, most significant first
RECURSIVE Decimal(_)
Decimal(d) ==
    IF d = <<>> THEN 0
    ELSE 10 * Decimal(SubSeq(d, 1, Len(d) - 1)) + DigitVal(d[Len(d)])

\* u32::from_str: an optional '+', then one digit or more. (The fields the
\* model enumerates are too short to overflow a u32.)
ParseU32(tok) ==
    LET d == IF tok # <<>> /\ Head(tok) = "+" THEN Tail(tok) ELSE tok
    IN IF d # <<>> /\ \A i \in 1 .. Len(d) : DigitVal(d[i]) >= 0
       THEN [ok |-> TRUE, val |-> Decimal(d)]
       ELSE [ok |-> FALSE, val |-> 0]

\* the match on the response (lines 130-142): the fields after the first are
\* parsed lazily, and next().unwrap() is called twice; a missing field or a
\* field that is no integer panics
SizeOf(r, l) ==
    IF r = "None" THEN [panic |-> FALSE, w |-> DefaultW, h |-> DefaultH]
    ELSE LET i == Tail(<<"skip">> \o Fields(l))
             f == IF i = <<>> THEN <<>> ELSE Tail(i)
         IN IF Len(f) >= 2 /\ ParseU32(f[1]).ok /\ ParseU32(f[2]).ok
            THEN [panic |-> FALSE, w |-> ParseU32(f[1]).val, h |-> ParseU32(f[2]).val]
            ELSE [panic |-> TRUE, w |-> 0, h |-> 0]

\* the pool does not exist yet while run() is in the handshake
PoolNotStarted ==
    /\ nchunks = 1
    /\ offset = "None"
    /\ channels = EmptyMap
    /\ tasks = {}
    /\ ident = [t \in Tasks |-> StartupId(t)]
    /\ pc = [t \in Tasks |-> "unspawned"]
    /\ chan = [t \in Tasks |-> <<>>]
    /\ wr = [t \in Tasks |-> <<>>]
    /\ stalled = {}
    /\ lock = "free"
    /\ dpc = "unspawned"
    /\ todo = <<>>
    /\ cur = <<>>
    /\ broken = <<>>
    /\ cursor = 0
    /\ sup = "handshake"
    /\ sig = FALSE
    /\ running = TRUE
    /\ failed = {}
    /\ last = [id \in Ids |-> <<>>]

\* nor has a pixel been encoded or a command packed
EncoderNotStarted ==
    /\ epc = "idle"
    /\ no_offset = FALSE
    /\ xoff = 0
    /\ yoff = 0
    /\ pixel = <<>>
    /\ pxcmd = <<>>
    /\ dir = <<>>

PackerNotStarted ==
    /\ pk = "idle"
    /\ folded = 0
    /\ total = 0
    /\ buf = <<>>

HInit ==
    /\ hs = "connect"
    /\ res = "unset"
    /\ line = <<>>
    /\ sw = 0
    /\ sh = 0
    /\ PoolNotStarted
    /\ EncoderNotStarted
    /\ PackerNotStarted

\* net::TcpStream::connect(opt.host).await?
HConnectOk ==
    /\ hs = "connect"
    /\ hs' = "send"
    /\ UNCHANGED <<res, line, sw, sh, pvars, xvars>>

HConnectErr ==
    /\ hs = "connect"
    /\ hs' = "abort"
    /\ UNCHANGED <<res, line, sw, sh, pvars, xvars>>

\* stream.send("SIZE".to_owned()).await?
HSendOk ==
    /\ hs = "send"
    /\ hs' = "read"
    /\ UNCHANGED <<res, line, sw, sh, pvars, xvars>>

HSendErr ==
    /\ hs = "send"
    /\ hs' = "abort"
    /\ UNCHANGED <<res, line, sw, sh, pvars, xvars>>

\* stream.next().await.and_then(|res| res.ok()): a line
HReadLine(l) ==
    /\ hs = "read"
    /\ res' = "Some"
    /\ line' = l
    /\ hs' = "match"
    /\ UNCHANGED <<sw, sh, pvars, xvars>>

\* ... or None: the stream ended, or the codec gave an error
HReadNone ==
    /\ hs = "read"
    /\ res' = "None"
    /\ hs' = "match"
    /\ UNCHANGED <<line, sw, sh, pvars, xvars>>

HMatch ==
    /\ hs = "match"
    /\ LET size == SizeOf(res, line)
       IN IF size.panic
          THEN hs' = "abort" /\ UNCHANGED <<sw, sh>>
          ELSE hs' = "done" /\ sw' = size.w /\ sh' = size.h
    /\ UNCHANGED <<res, line, pvars, xvars>>

HNext ==
    \/ HConnectOk \/ HConnectErr
    \/ HSendOk \/ HSendErr
    \/ \E l \in Lines : HReadLine(l)
    \/ HReadNone
    \/ HMatch

HandshakeSpec == HInit /\ [][HNext]_vars

\* ---------------------------------------------------------------- Init
HandshakeDone ==
    /\ hs = "done"
    /\ res = "None"
    /\ line = <<>>
    /\ sw = DefaultW
    /\ sh = DefaultH

\* the state of run() when it enters the supervisor loop (line 291)
PoolInit ==
    /\ nchunks \in 1 .. MaxChunks
    /\ offset \in {"Some", "None"}
    /\ channels = StartupChannels(Num)
    /\ tasks = Tasks
    /\ ident = [t \in Tasks |-> StartupId(t)]
    /\ pc = [t \in Tasks |-> "connecting"]
    /\ chan = [t \in Tasks |-> <<>>]
    /\ wr = [t \in Tasks |-> <<>>]
    /\ stalled = {}
    /\ lock = "free"
    /\ dpc = "lock"
    /\ todo = <<>>
    /\ cur = <<>>
    /\ broken = <<>>
    /\ cursor = 0
    /\ sup = "select"
    /\ sig = FALSE
    /\ running = TRUE
    /\ failed = {}
    /\ last = [id \in Ids |-> <<>>]

\* of the encoder and the packer the pool model keeps what the pool reads:
\* the offset option, which is Some exactly if opt.no_offset is not set
\* (line 252), and chunks.len()
PoolInputs ==
    /\ epc = "idle"
    /\ no_offset = (offset = "None")
    /\ xoff = 0
    /\ yoff = 0
    /\ pixel = <<>>
    /\ pxcmd = <<>>
    /\ dir = <<>>
    /\ PackerNotStarted

Init == HandshakeDone /\ PoolInit /\ PoolInputs

\* -------------------------------------------------------------- worker
Live(t) == running /\ t \notin stalled

\* the task's future ends: its receiver is dropped and the channel drained
Finish(t, how) ==
    /\ pc' = [pc EXCEPT ![t] = how]
    /\ chan' = [chan EXCEPT ![t] = <<>>]
    /\ wr' = [wr EXCEPT ![t] = <<>>]

\* mutant: the worker does not look at the offset it was given
WorkerConnectOkNoDirective(t) ==
    /\ Live(t) /\ pc[t] = "connecting"
    /\ pc' = [pc EXCEPT ![t] = "recv"]
    /\ UNCHANGED <<chan, wr, stalled, dvars, svars, cvars, failed, last, hvars, xvars>>

WorkerConnectOk(t) ==
    /\ Live(t) /\ pc[t] = "connecting"
    /\ pc' = [pc EXCEPT ![t] = IF offset = "Some" THEN "offset" ELSE "recv"]
    /\ UNCHANGED <<chan, wr, stalled, dvars, svars, cvars, failed, last, hvars, xvars>>

WorkerConnectErr(t) ==
    /\ Live(t) /\ pc[t] = "connecting"
    /\ Finish(t, "err")
    /\ UNCHANGED <<stalled, dvars, svars, cvars, failed, last, hvars, xvars>>

WorkerOffsetOk(t) ==
    /\ Live(t) /\ pc[t] = "offset"
    /\ pc' = [pc EXCEPT ![t] = "recv"]
    /\ UNCHANGED <<chan, wr, stalled, dvars, svars, cvars, failed, last, hvars, xvars>>

\* mutant: a failed write of the directive is logged and the worker goes on
WorkerOffsetErrIgnored(t) ==
    /\ Live(t) /\ pc[t] = "offset"
    /\ pc' = [pc EXCEPT ![t] = "recv"]
    /\ UNCHANGED <<chan, wr, stalled, dvars, svars, cvars, failed, last, hvars, xvars>>

WorkerOffsetErr(t) ==
    /\ Live(t) /\ pc[t] = "offset"
    /\ Finish(t, "err")
    /\ UNCHANGED <<stalled, dvars, svars, cvars, failed, last, hvars, xvars>>

\* mutant: the worker takes the chunk put on the channel last
WorkerRecvNewest(t) ==
    /\ Live(t) /\ pc[t] = "recv"
    /\ chan[t] # <<>>
    /\ pc' = [pc EXCEPT ![t] = "writing"]
    /\ wr' = [wr EXCEPT ![t] = <<chan[t][Len(chan[t])]>>]
    /\ chan' = [chan EXCEPT ![t] = SubSeq(chan[t], 1, Len(chan[t]) - 1)]
    /\ UNCHANGED <<stalled, dvars, svars, cvars, failed, last, hvars, xvars>>

\* rx.recv(): the next buffered chunk, or None once the channel is empty and
\* every sender is gone, which ends the loop with Ok(id)
WorkerRecv(t) ==
    /\ Live(t) /\ pc[t] = "recv"
    /\ chan[t] # <<>> \/ ~TxAlive(t)
    /\ IF chan[t] # <<>>
       THEN /\ pc' = [pc EXCEPT ![t] = "writing"]
            /\ wr' = [wr EXCEPT ![t] = <<Head(chan[t])>>]
            /\ chan' = [chan EXCEPT ![t] = Tail(chan[t])]
       ELSE Finish(t, "ok")
    /\ UNCHANGED <<stalled, dvars, svars, cvars, failed, last, hvars, xvars>>

WorkerWriteOk(t) ==
    /\ Live(t) /\ pc[t] = "writing"
    /\ pc' = [pc EXCEPT ![t] = "recv"]
    /\ wr' = [wr EXCEPT ![t] = <<>>]
    /\ UNCHANGED <<chan, stalled, dvars, svars, cvars, failed, last, hvars, xvars>>

WorkerWriteErr(t) ==
    /\ Live(t) /\ pc[t] = "writing"
    /\ Finish(t, "err")
    /\ UNCHANGED <<stalled, dvars, svars, cvars, failed, last, hvars, xvars>>

\* the peer stops answering: the pending connect or write never completes
Stall(t) ==
    /\ Live(t) /\ pc[t] \in {"connecting", "offset", "writing"}
    /\ stalled' = stalled \cup {t}
    /\ UNCHANGED <<pc, chan, wr, dvars, svars, cvars, failed, last, hvars, xvars>>

WorkerStep(t) ==
    \/ WorkerConnectOk(t) \/ WorkerConnectErr(t)
    \/ WorkerOffsetOk(t) \/ WorkerOffsetErr(t)
    \/ WorkerRecv(t)
    \/ WorkerWriteOk(t) \/ WorkerWriteErr(t)

\* ---------------------------------------------------------- dispatcher
\* channels.lock().await, then channels.iter_mut() zipped with chunk_iter
DispLock ==
    /\ running /\ dpc = "lock" /\ lock = "free"
    /\ lock' = "disp"
    /\ todo' = IterOrder(channels)
    /\ broken' = <<>>
    /\ dpc' = "iter"
    /\ UNCHANGED <<cur, cursor, channels, wvars, svars, cvars, failed, last, hvars, xvars>>

\* mutant: chunk_iter is made anew for every send and gives its first chunk
NextCursorStay(c) == c

\* chunk_iter.next() on chunks.into_iter().cycle()
NextCursor(c) == (c + 1) % nchunks

\* mutant: the zip asks chunk_iter first (chunk_iter.zip(channels)), so the
\* end of the registry costs one chunk
CursorAtEndTaken(c) == (c + 1) % nchunks

\* zip's next() when channels.iter_mut() is exhausted: it returns None without
\* asking chunk_iter for a chunk
CursorAtEnd(c) == c

\* zip's next(): the next registry entry, then the next chunk of the cycle
DispTake ==
    /\ running /\ dpc = "iter" /\ todo # <<>>
    /\ cur' = <<Head(todo), cursor>>
    /\ cursor' = NextCursor(cursor)
    /\ todo' = Tail(todo)
    /\ dpc' = "send"
    /\ UNCHANGED <<lock, broken, channels, wvars, svars, cvars, failed, last, hvars, xvars>>

\* mutant: the channel takes one chunk more than its capacity
SendBlockedAbove(c) == RxAlive(c) /\ Len(chan[c]) > Cap

\* tx.send(chunk).await waits while the channel is full and its receiver alive
SendBlocked(c) == RxAlive(c) /\ Len(chan[c]) >= Cap
SendFails(c) == ~RxAlive(c)

DispSendOk ==
    /\ running /\ dpc = "send"
    /\ LET id == cur[1]
           c == channels[id]
       IN /\ ~SendFails(c) /\ ~SendBlocked(c)
          /\ chan' = [chan EXCEPT ![c] = Append(@, cur[2])]
          /\ last' = [last EXCEPT ![id] = <<cur[2], Cardinality(DOMAIN channels)>>]
    /\ cur' = <<>>
    /\ dpc' = "iter"
    /\ UNCHANGED <<lock, todo, broken, cursor, channels, pc, wr, stalled,
                   svars, cvars, failed, hvars, xvars>>

DispSendErr ==
    /\ running /\ dpc = "send"
    /\ LET id == cur[1]
           c == channels[id]
       IN /\ SendFails(c)
          /\ broken' = Append(broken, id)
          /\ failed' = failed \cup {c}
    /\ cur' = <<>>
    /\ dpc' = "iter"
    /\ UNCHANGED <<lock, todo, cursor, channels, wvars, svars, cvars, last, hvars, xvars>>

\* mutant: the registry is a Vec indexed by identity, and a removal moves
\* the entries behind it down
RemoveAllShift(m, ids) ==
    LET keys == IterOrder([x \in (DOMAIN m) \ Range(ids) |-> m[x]])
    IN [i \in 0 .. (Len(keys) - 1) |-> m[keys[i + 1]]]

\* mutant: only the first broken identity is removed
RemoveFirst(m, ids) ==
    IF ids = <<>> THEN m ELSE [x \in (DOMAIN m) \ {Head(ids)} |-> m[x]]

\* for id in broken { channels.remove(&id) }
RECURSIVE RemoveAll(_, _)
RemoveAll(m, ids) ==
    IF ids = <<>> THEN m ELSE RemoveAll(Remove(m, Head(ids)), Tail(ids))

\* the end of the loop body: the broken ones are removed, the guard is dropped
DispEnd ==
    /\ running /\ dpc = "iter" /\ todo = <<>>
    /\ cursor' = CursorAtEnd(cursor)
    /\ channels' = RemoveAll(channels, broken)
    /\ broken' = <<>>
    /\ lock' = "free"
    /\ dpc' = "lock"
    /\ UNCHANGED <<todo, cur, wvars, svars, cvars, failed, last, hvars, xvars>>

Dispatcher == DispLock \/ DispTake \/ DispSendOk \/ DispSendErr \/ DispEnd

\* ---------------------------------------------------------- supervisor
\* ctrl-c arrives
Signal ==
    /\ running /\ ~sig
    /\ sig' = TRUE
    /\ UNCHANGED <<sup, running, tasks, wvars, dvars, cvars, failed, last, hvars, xvars>>

\* break: run() logs and returns Ok(()), block_on and main return, and the
\* runtime is dropped with every task still on it
Break ==
    /\ sup' = "done"
    /\ running' = FALSE

\* mutant: the supervisor takes the registry lock before it looks at the signal
CtrlCAfterLock == sig /\ lock = "free"

\* signal::ctrl_c() completes once the signal has been delivered; nothing
\* else is awaited before the select!
CtrlCReady == sig

\* select!: the ctrl_c() arm
SupOnSignal ==
    /\ running /\ sup = "select" /\ CtrlCReady
    /\ Break
    /\ UNCHANGED <<sig, tasks, wvars, dvars, cvars, failed, last, hvars, xvars>>

\* select!: the tasks.next() arm, for a finished task t
SupOnTask(t) ==
    /\ running /\ sup = "select"
    /\ t \in tasks /\ Terminated(t)
    /\ tasks' = tasks \ {t}
    /\ IF SupArm(Result(t)) = "continue"
       THEN UNCHANGED <<sup, running>>
       ELSE Break
    /\ UNCHANGED <<sig, wvars, dvars, cvars, failed, last, hvars, xvars>>

Supervisor == SupOnSignal \/ \E t \in Tasks : SupOnTask(t)

Next ==
    \/ \E t \in Tasks : WorkerStep(t)
    \/ \E t \in Tasks : Stall(t)
    \/ Dispatcher
    \/ Signal
    \/ Supervisor

Spec == Init /\ [][Next]_vars

\* the scheduler runs every task that can run; a connect or a write that is
\* not stalled completes, one way or the other
FairSpec ==
    /\ Spec
    /\ WF_vars(Dispatcher)
    /\ WF_vars(Supervisor)
    /\ \A t \in Tasks : WF_vars(WorkerStep(t))

\* ------------------------------------------------------------- encoder
\* mutant: the encoder translates whether or not the workers send OFFSET
TranslateAlways(p) == <<p[1] + xoff, p[2] + yoff>>

\* the coordinates of the command (lines 195-198): if opt.no_offset
\* { x += xoff; y += yoff; }. (The coordinates the model enumerates are too
\* small to overflow a u32.)
Translate(p) ==
    IF no_offset THEN <<p[1] + xoff, p[2] + yoff>> ELSE p

\* (!opt.no_offset).then_some((xoff, yoff)): Some or None; the value of a
\* Some is <<xoff, yoff>>
OffsetOption == IF ~no_offset THEN "Some" ELSE "None"

\* if let Some(offset) = offset: format!("OFFSET {} {}\n", offset.0, offset.1)
Directive(o) == IF o = "Some" THEN <<"OFFSET", xoff, yoff>> ELSE <<>>

EncInit ==
    /\ HandshakeDone
    /\ PoolNotStarted
    /\ PackerNotStarted
    /\ epc = "map"
    /\ no_offset \in BOOLEAN
    /\ xoff \in 0 .. MaxOff
    /\ yoff \in 0 .. MaxOff
    /\ pixel \in (0 .. MaxCoord) \X (0 .. MaxCoord)
    /\ pxcmd = <<>>
    /\ dir = <<>>

\* the closure of map() for one pixel: format!("PX {} {} ..\n", x, y, ..)
EncMap ==
    /\ epc = "map"
    /\ pxcmd' = <<"PX">> \o Translate(pixel)
    /\ epc' = "option"
    /\ UNCHANGED <<no_offset, xoff, yoff, pixel, dir, hvars, pvars, kvars>>

\* let offset = (!opt.no_offset).then_some((xoff, yoff))
EncOffset ==
    /\ epc = "option"
    /\ offset' = OffsetOption
    /\ epc' = "client"
    /\ UNCHANGED <<no_offset, xoff, yoff, pixel, pxcmd, dir, hvars, kvars,
                   wvars, dvars, svars, nchunks, ident, failed, last>>

\* a worker, connected, writes the directive if it was given an offset
EncClient ==
    /\ epc = "client"
    /\ dir' = Directive(offset)
    /\ epc' = "done"
    /\ UNCHANGED <<no_offset, xoff, yoff, pixel, pxcmd, hvars, pvars, kvars>>

EncNext == EncMap \/ EncOffset \/ EncClient

EncodeSpec == EncInit /\ [][EncNext]_vars

\* -------------------------------------------------------------- packer
\* the byte lengths of the commands the model enumerates: a PX command has
\* 10 to 34 bytes
CmdLens == {33, 34}

\* a String is kept as the commands pushed onto it (each named by its place
\* in pxls) and its len(), the bytes of them all
\* String::with_capacity(chunk_len)
EmptyChunk == [cmds |-> <<>>, len |-> 0]

\* chunk.push_str(&px)
PushStr(chunk, p) ==
    [cmds |-> Append(chunk.cmds, p.i), len |-> chunk.len + p.len]

\* mutant: a command that fills the chunk to the last byte is too much
ExceedsOrFills(chunk, p) == chunk.len + p.len >= ChunkLen

\* chunk.len() + px.len() > chunk_len
Exceeds(chunk, p) == chunk.len + p.len > ChunkLen

\* mutant: the new chunk takes the place of the full one
FoldStepReplace(b, p) ==
    IF Exceeds(b[Len(b)], p)
    THEN [b EXCEPT ![Len(b)] = PushStr(EmptyChunk, p)]
    ELSE [b EXCEPT ![Len(b)] = PushStr(@, p)]

\* the closure of fold(): |mut buf, px| { .. buf }
FoldStep(b, p) ==
    IF Exceeds(b[Len(b)], p)
    THEN Append(b, PushStr(EmptyChunk, p))
    ELSE [b EXCEPT ![Len(b)] = PushStr(@, p)]

\* fold(vec![ String::with_capacity(chunk_len) ], ..)
PackInit ==
    /\ HandshakeDone
    /\ PoolNotStarted
    /\ EncoderNotStarted
    /\ pk = "fold"
    /\ folded = 0
    /\ total = 0
    /\ buf = <<EmptyChunk>>

\* the fold takes the next command of pxls, one of n bytes
PackPush(n) ==
    /\ pk = "fold" /\ folded < MaxCmds
    /\ folded' = folded + 1
    /\ total' = total + n
    /\ buf' = FoldStep(buf, [i |-> folded + 1, len |-> n])
    /\ UNCHANGED <<pk, hvars, pvars, evars>>

\* pxls is exhausted: .into_iter().map(Arc::new).collect()
PackCollect ==
    /\ pk = "fold"
    /\ pk' = "done"
    /\ UNCHANGED <<folded, total, buf, hvars, pvars, evars>>

PackNext == (\E n \in CmdLens : PackPush(n)) \/ PackCollect

PackSpec == PackInit /\ [][PackNext]_vars

\* ================================================================ claims
InFlight(t) == pc[t] \in {"connecting", "offset", "recv", "writing"}

\* the step appends a chunk to channel c
DeliverTo(c) == Len(chan'[c]) = Len(chan[c]) + 1

\* C1: whenever a worker task completes and no shutdown signal has arrived,
\* the Supervisor launches one replacement task under the same identity and
\* keeps running. Stated of the step in which tasks.next() yields the task.
C1_RespawnOnCompletion ==
    [][\A t \in Tasks :
         (t \in tasks /\ Terminated(t) /\ ~sig /\ t \notin tasks')
         => /\ sup' = "select"
            /\ \E u \in tasks' : ident'[u] = ident[t]
                                 /\ pc'[u] \in {"connecting", "offset", "recv", "writing"}]_vars

\* C2: after a worker's connection is killed the registry eventually holds
\* all num identities again, the killed one mapped to a channel whose
\* receiver is alive.
C2_RegistryRefilled ==
    \A t \in Tasks :
        [](pc[t] = "err"
           => <>(DOMAIN channels = Ids /\ RxAlive(channels[ident[t]])))

\* C3: a worker error is never fatal: the Supervisor loop ends (and with it
\* the Dispatcher and the other workers) only when the shutdown signal has
\* arrived.
C3_WorkerErrorNotFatal == (sup = "done" \/ ~running) => sig

\* C4: with exactly one unresponsive worker t, every other registered worker
\* v keeps being handed chunks (until it ends, the process stops or another
\* worker becomes unresponsive), and the registry lock is released again.
\* A worker that is not stalled empties its channel, so it is handed chunks
\* again and again exactly if its channel is non-empty again and again.
C4_NotBlockedByOneWorker ==
    /\ \A t, v \in Tasks :
         (t # v) =>
           []((stalled = {t} /\ TxAlive(v) /\ running)
              => <>(chan[v] # <<>> \/ ~running \/ Terminated(v) \/ stalled # {t}))
    /\ []((lock = "disp" /\ Cardinality(stalled) = 1)
          => <>(lock = "free" \/ ~running \/ Cardinality(stalled) # 1))

C6_EveryChunkToEveryWorker ==
    \A t \in Tasks : \A c \in 0 .. (MaxChunks - 1) :
        <>(\/ c >= nchunks
           \/ c \in Range(chan[t])
           \/ ~running
           \/ stalled # {}
           \/ \E u \in Tasks : Terminated(u))

\* C7: a send on a channel whose receiver is gone does not wait; the identity
\* is out of the registry when the Dispatcher releases the lock, and no send
\* is attempted on a channel on which one has failed.
C7_DeadChannelRemoved ==
    /\ (running /\ dpc = "send" /\ ~RxAlive(channels[cur[1]])) => ENABLED DispSendErr
    /\ lock = "free" => \A id \in DOMAIN channels : channels[id] \notin failed
    /\ dpc = "send" => channels[cur[1]] \notin failed

\* the Dispatcher has released the lock after a failed send, the process runs
C7_Witness ==
    /\ running /\ lock = "free"
    /\ \E c \in failed : ~TxAlive(c)
    /\ DOMAIN channels # {}

\* C8: at most one in-flight task per identity; a registered identity maps
\* to the channel of the most recently launched task of that identity; the
\* registry's keys are identities, and all of them until a send has failed.
C8_OneTaskOneChannel ==
    /\ \A id \in Ids : Cardinality({t \in Tasks : ident[t] = id /\ InFlight(t)}) <= 1
    /\ \A id \in DOMAIN channels :
         /\ ident[channels[id]] = id
         /\ \A u \in Tasks : ident[u] = id => u <= channels[id]
    /\ DOMAIN channels \subseteq Ids
    /\ failed = {} => DOMAIN channels = Ids

\* the registry has lost an identity and keeps another, whose task is in flight
C8_Witness ==
    /\ running
    /\ \E id \in DOMAIN channels : InFlight(channels[id])
    /\ \E id \in Ids : id \notin DOMAIN channels

\* C9: once the signal is delivered the Supervisor can leave its loop at
\* once, whatever the workers and the registry lock are doing; every step it
\* takes from then on leaves the loop, and no task is launched.
C9_SignalStopsSupervisor ==
    [][sig =>
         /\ (running /\ sup = "select") => ENABLED SupOnSignal
         /\ sup' # sup => sup' = "done"
         /\ tasks' \subseteq tasks
         /\ \A t \in Tasks : pc'[t] = "connecting" => pc[t] = "connecting"]_vars

\* the loop has ended on the signal while the Dispatcher waits on a full
\* channel with the lock held and no worker task has completed
C9_Witness ==
    /\ sig /\ sup = "done"
    /\ lock = "disp" /\ dpc = "send" /\ SendBlocked(channels[cur[1]])
    /\ \A t \in Tasks : ~Terminated(t)

\* the response has fewer than two fields after the first, or one of the two
\* is no integer
Malformed(l) ==
    LET f == Fields(l)
    IN Len(f) < 3 \/ ~ParseU32(f[2]).ok \/ ~ParseU32(f[3]).ok

\* C10: the handshake never aborts the program; on a missing or malformed
\* response the canvas is the default 1024x768. Stated of the handshakes in
\* which the connection opened and the query was sent.
C10_HandshakeNeverAborts ==
    (res # "unset" /\ hs \in {"done", "abort"})
    => /\ hs = "done"
       /\ (res = "None" \/ Malformed(line)) => (sw = DefaultW /\ sh = DefaultH)

\* the commands of the chunks of b, first chunk first
RECURSIVE Concat(_)
Concat(b) == IF b = <<>> THEN <<>> ELSE Head(b).cmds \o Concat(Tail(b))

\* the bytes of the chunks of b, all together
RECURSIVE Bytes(_)
Bytes(b) == IF b = <<>> THEN 0 ELSE Head(b).len + Bytes(Tail(b))

\* C11: the chunks, one after the other, are the commands the packer has
\* taken, each once and in the order of the input, and hold as many bytes as
\* these commands: no command is lost, repeated, moved or cut in two.
C11_ChunksAreTheInput ==
    /\ Concat(buf) = [i \in 1 .. folded |-> i]
    /\ Bytes(buf) = total

\* the packer has finished with more than one chunk
C11_Witness ==
    /\ pk = "done"
    /\ Len(buf) >= 2
    /\ Concat(buf) = [i \in 1 .. folded |-> i]

\* C12: no chunk is longer than chunk_len; the chunks of an empty input are
\* one empty chunk, and no chunk of another input is empty; the packer
\* starts a chunk with a command exactly if the command, appended to the
\* last chunk, would make it longer than chunk_len.
C12_ChunksBoundedNotEmpty ==
    /\ [](/\ \A j \in 1 .. Len(buf) : buf[j].len <= ChunkLen
          /\ folded = 0 => buf = <<EmptyChunk>>
          /\ folded > 0 => \A j \in 1 .. Len(buf) :
                                buf[j].len > 0 /\ buf[j].cmds # <<>>)
    /\ [][folded' = folded + 1
          => /\ Len(buf') \in {Len(buf), Len(buf) + 1}
             /\ Len(buf') = Len(buf) + 1
                  <=> buf[Len(buf)].len + (total' - total) > ChunkLen]_vars

\* the packer has finished, one chunk is full to the last byte and another
\* follows it
C12_Witness ==
    /\ pk = "done"
    /\ \E j \in 1 .. (Len(buf) - 1) : buf[j].len = ChunkLen /\ buf[j + 1].len > 0

\* where the server, which adds the OFFSET of a connection to the PX
\* coordinates it reads on it, puts the pixel
Placed ==
    IF dir = <<>> THEN <<pxcmd[2], pxcmd[3]>>
    ELSE <<pxcmd[2] + dir[2], pxcmd[3] + dir[3]>>

\* C19: with opt.no_offset unset (offsets enabled) the workers write OFFSET
\* xoff yoff and the PX command has the image coordinates; with it set no
\* OFFSET is written and the PX command has the image coordinates plus
\* (xoff, yoff); either way the pixel is placed at its image coordinates
\* plus (xoff, yoff), the offset being applied once.
C19_OffsetAppliedOnce ==
    epc = "done"
    => /\ ~no_offset => /\ dir = <<"OFFSET", xoff, yoff>>
                        /\ pxcmd = <<"PX", pixel[1], pixel[2]>>
       /\ no_offset => /\ dir = <<>>
                       /\ pxcmd = <<"PX", pixel[1] + xoff, pixel[2] + yoff>>
       /\ Placed = <<pixel[1] + xoff, pixel[2] + yoff>>

\* a pixel has been encoded and a worker has written its directive, with a
\* placement offset that is not zero and offsets enabled
C19_Witness ==
    /\ epc = "done"
    /\ ~no_offset /\ xoff > 0 /\ yoff > 0
    /\ dir # <<>>
    /\ Placed # <<pixel[1], pixel[2]>>

\* q is p with chunks put behind it (or p itself)
Extends(q, p) == q = p \/ (Len(q) > Len(p) /\ SubSeq(q, 1, Len(p)) = p)

\* C13: on every connection the directive is written at most once, right
\* after the connection opens and only if offsets are enabled; the worker
\* waits for its first chunk only once the directive is written (offsets
\* enabled) or at once (offsets disabled), and no chunk is taken or written
\* before that.
C13_DirectiveOnceAndFirst ==
    [][\A t \in Tasks :
         /\ (pc[t] = "connecting" /\ pc'[t] # "connecting")
            => pc'[t] \in {IF offset = "Some" THEN "offset" ELSE "recv", "err"}
         /\ pc'[t] = "offset" => (offset = "Some" /\ pc[t] \in {"connecting", "offset"})
         /\ (pc[t] = "offset" /\ pc'[t] # "offset") => pc'[t] \in {"recv", "err"}
         /\ (pc'[t] = "recv" /\ pc[t] \notin {"recv", "writing"})
            => pc[t] = (IF offset = "Some" THEN "offset" ELSE "connecting")
         /\ (wr'[t] # <<>> \/ (pc'[t] # "err" /\ ~Extends(chan'[t], chan[t])))
            => pc[t] \in {"recv", "writing"}
         /\ pc[t] \in {"connecting", "offset"} => wr[t] = <<>>]_vars

\* with offsets enabled a worker is writing a chunk while the process runs
C13_Witness ==
    /\ running /\ offset = "Some"
    /\ \E t \in Tasks : pc[t] = "writing" /\ wr[t] # <<>>

\* C14: a worker whose connect or directive write fails ends with an error
\* in that step, and a worker that is connecting or writing the directive
\* ends in no other way; it has been neither waiting for a chunk nor
\* writing one before, and no chunk was taken from its channel; a task that
\* has ended stays as it ended and takes and writes nothing.
C14_ConnectFailureEndsTask ==
    [][\A t \in Tasks :
         /\ (WorkerConnectErr(t) \/ WorkerOffsetErr(t))
            => (pc'[t] = "err" /\ wr'[t] = <<>> /\ chan'[t] = <<>>)
         /\ (pc[t] \in {"connecting", "offset"} /\ pc'[t] \notin {"connecting", "offset", "recv"})
            => pc'[t] = "err"
         /\ pc[t] \in {"connecting", "offset"}
            => (wr[t] = <<>> /\ wr'[t] = <<>>
                /\ (pc'[t] = "err" \/ Extends(chan'[t], chan[t])))
         /\ pc'[t] = "connecting" => pc[t] = "connecting"
         /\ pc'[t] = "offset" => pc[t] \in {"connecting", "offset"}
         /\ Terminated(t)
            => (pc'[t] = pc[t] /\ wr'[t] = <<>> /\ chan'[t] = <<>>)]_vars

\* a task has ended with an error without a chunk ever put on its channel,
\* while the process runs and the other tasks are in flight
C14_Witness ==
    /\ running
    /\ \E t \in Tasks :
         /\ pc[t] = "err" /\ last[ident[t]] = <<>>
         /\ \A u \in Tasks \ {t} : InFlight(u)

\* C15: the chunk a worker takes is the oldest in its channel, and chunks
\* are put behind the newest; while it writes a chunk it takes no other; it
\* ends with Ok only from waiting on an empty channel whose senders are all
\* gone, and a worker that has been waiting or writing ends with an error
\* only by a failed write.
C15_FifoUntilClosedOrFailed ==
    [][\A t \in Tasks :
         /\ (pc[t] = "recv" /\ pc'[t] = "writing")
            => /\ chan[t] # <<>>
               /\ wr'[t] = <<Head(chan[t])>>
               /\ chan'[t] = Tail(chan[t])
         /\ Len(chan'[t]) > Len(chan[t]) => Extends(chan'[t], chan[t])
         /\ pc[t] = "writing"
            => /\ Len(wr[t]) = 1
               /\ wr'[t] \in {wr[t], <<>>}
               /\ pc'[t] \in {"writing", "recv", "err"}
               /\ pc'[t] = "err" \/ Extends(chan'[t], chan[t])
         /\ (pc'[t] = "ok" /\ pc[t] # "ok")
            => (pc[t] = "recv" /\ chan[t] = <<>> /\ wr[t] = <<>> /\ ~TxAlive(t))
         /\ (pc'[t] = "err" /\ pc[t] \in {"recv", "writing"}) => pc[t] = "writing"
         /\ (pc[t] = "recv" /\ pc'[t] # "recv") => pc'[t] \in {"writing", "ok"}]_vars

\* a worker is writing the chunk it took while two different chunks wait
\* behind it in the channel
C15_Witness ==
    /\ running
    /\ \E t \in Tasks :
         /\ pc[t] = "writing" /\ Len(chan[t]) >= 2
         /\ chan[t][1] # chan[t][2] /\ wr[t][1] # chan[t][1]

\* C16: the cursor moves only when a send attempt begins, to the next index
\* of the cycle, and the attempt gets the chunk at the cursor; neither the
\* outcome of the send nor the end of an iteration moves it; an iteration
\* attempts one send per registered worker.
C16_CursorStepsPerAttempt ==
    [][/\ cursor' # cursor
          => (dpc = "iter" /\ dpc' = "send" /\ cursor' = (cursor + 1) % nchunks)
       /\ (dpc = "iter" /\ dpc' = "send")
          => /\ cur' = <<Head(todo), cursor>>
             /\ cursor' = (cursor + 1) % nchunks
             /\ todo' = Tail(todo)
       /\ (dpc = "send" /\ dpc' = "iter") => (cursor' = cursor /\ todo' = todo)
       /\ (dpc = "lock" /\ dpc' = "iter")
          => (cursor' = cursor /\ Len(todo') = Cardinality(DOMAIN channels))
       /\ (dpc = "iter" /\ dpc' = "lock") => (cursor' = cursor /\ todo = <<>>)]_vars

\* after a failed send the next attempt of the iteration has the next chunk
C16_Witness ==
    /\ running /\ dpc = "send" /\ broken # <<>>
    /\ nchunks >= 2
    /\ cursor = (cur[2] + 1) % nchunks

\* C17: no channel holds more than 4 chunks; a send to a full channel of a
\* live worker neither completes nor fails, and the chunk stays pending; a
\* send to a channel of a live worker that is not full can complete.
C17_ChannelBounded ==
    /\ \A t \in Tasks : Len(chan[t]) <= Cap
    /\ (running /\ dpc = "send")
       => LET c == channels[cur[1]]
          IN /\ (~Terminated(c) /\ Len(chan[c]) = Cap)
                => (~ENABLED DispSendOk /\ ~ENABLED DispSendErr /\ Len(cur) = 2)
             /\ (~Terminated(c) /\ Len(chan[c]) < Cap) => ENABLED DispSendOk

\* the send waits on a full channel whose worker is about to take a chunk
C17_Witness ==
    /\ running /\ dpc = "send"
    /\ Len(chan[channels[cur[1]]]) = Cap
    /\ pc[channels[cur[1]]] = "recv"
    /\ channels[cur[1]] \notin stalled

\* C18: no step adds an identity to the registry or gives a registered
\* identity another channel; no chunk is put on a channel of an identity
\* that is not registered.
C18_RegistryOnlyShrinks ==
    [][/\ DOMAIN channels' \subseteq DOMAIN channels
       /\ \A id \in DOMAIN channels' : channels'[id] = channels[id]
       /\ \A t \in Tasks :
            ident[t] \notin DOMAIN channels
            => (Len(chan'[t]) <= Len(chan[t]) /\ last'[ident[t]] = last[ident[t]])]_vars

\* an identity is out of the registry and the Dispatcher has a send pending
\* to another
C18_Witness ==
    /\ running /\ dpc = "send"
    /\ \E id \in Ids : id \notin DOMAIN channels
    /\ ~Terminated(channels[cur[1]])

====
